---- MODULE Spec2Model ----
(***************************************************************************)
(* SqlAdapterBase of @sabl/adp-rdb (src/src/sqladapterbase.ts).            *)
(*                                                                         *)
(* The adapter holds two readonly collaborators (sqlSource, mapper) and    *)
(* five operations.  Every operation is an async function (selectMany an   *)
(* async generator): it runs atomically between two suspension points,     *)
(* which are the awaits on db.query / db.exec / rows.next and, for         *)
(* selectMany, the yield.  A call's position is the source line of the     *)
(* await (or yield) it is suspended at.  Calls of different callers        *)
(* interleave at these points.                                             *)
(*                                                                         *)
(* The collaborators (SqlSource, RecordMapper, DbApi, Rows) are interfaces *)
(* implemented outside the adapter; they are modelled as an environment    *)
(* that may answer or fail at each call, and every call the adapter makes  *)
(* on them is appended to the calling operation's log.                     *)
(***************************************************************************)
EXTENDS Integers, Sequences, FiniteSets, TLC

\* Largest number of rows a cursor produces.
MaxRows == 2

\* The callers whose calls may be in flight at the same time.
Callers == {1, 2}

VARIABLES
    flags,      \* this.mapper.flags: the bitset of MappingFlags
    calls,      \* per caller: the call it makes on the adapter
    cursors     \* the Rows objects the executor has returned, in order

vars == <<flags, calls, cursors>>

----------------------------------------------------------------------------
\* MappingFlags (./types): single-bit members of the flags bitset.
generatedId == 1
generatedOnInsert == 2
generatedOnUpdate == 4
AllFlags == 0..7

\* hasMappingFlag(flags, flag) (./types): the bit of flag is set in flags.
hasMappingFlag(fs, flag) == (fs \div flag) % 2 = 1

\* AdapterError codes, and the opaque errors of the collaborators.
MISSING_STATEMENT == "adapter:missing-statement"
NON_QUERY == "adapter:non-query"
ExecutorError == "executor-error"
MapperError == "mapper-error"
ContextError == "context-error"

----------------------------------------------------------------------------
\* Optional values: <<>> is null / undefined, <<v>> is the value v.
None == <<>>
Some(v) == <<v>>

\* A record object: its identity (who made it, and which of theirs it is)
\* and its two mapped fields.
Rec(owner, n, key, val) == [id |-> <<owner, n>>, key |-> key, val |-> val]

\* The records a caller passes to insert / update / delete.
CallerRecords(c) == {Rec(c, 0, 7, 5)}

\* RecordMapper.create(): the n-th blank record made for caller c.
create(c, n) == Rec(c, n, 0, 0)

\* RecordMapper.load(row, record): overwrite the mapped fields in place.
load(row, record) == [record EXCEPT !.key = row[1], !.val = row[2]]

\* RecordMapper.setKey(record, key)
setKey(record, key) == [record EXCEPT !.key = key]

\* RecordMapper.get*Params(record): ordered bind values.
getInsertParams(record) == <<record.key, record.val>>
getUpdateParams(record) == <<record.val, record.key>>
getDeleteParams(record) == <<record.key, record.val>>

\* SqlSource: statement text, or null when the statement is not defined.
Sql(text, cols) == [text |-> text, cols |-> cols]
InsertSQLs == {None, Some(Sql("INSERT", <<>>))}
UpdateSQLs == {None, Some(Sql("UPDATE", <<>>))}
DeleteSQLs == {None, Some(Sql("DELETE", <<>>))}
getSelectSQL(cols) == Sql("SELECT", cols)
CustomSQL == Sql("CUSTOM", <<>>)

\* ParamMap (./db-api): filter values by column name, in key order.
Pair(k, v) == [k |-> k, v |-> v]
EmptyMap == <<>>
StatusMap == <<Pair("status", "active")>>
StatusIdMap == <<Pair("status", "active"), Pair("id", "42")>>

\* Object.keys(map): the column names in the map's key order.
Keys(map) == [i \in 1..Len(map) |-> map[i].k]

\* toParamArray(params) (./db-api): the values in the map's key order;
\* no values for an undefined map.
toParamArray(params) ==
    IF params = None THEN <<>>
    ELSE [i \in 1..Len(params[1]) |-> params[1][i].v]

\* The (sqlOrParams, params) argument pairs of selectOne / selectMany: a
\* filter map alone, or SQL text with a filter map.
SelectArgs ==
    {[sql |-> None, params |-> Some(StatusIdMap)],
     [sql |-> Some(CustomSQL), params |-> Some(StatusMap)]}

\* The result set of a query: n rows of two columns, all different.
ResultSet(n) == [i \in 1..n |-> <<10 * i + 1, 10 * i + 2>>]

\* A Rows object as returned by db.query.
NewCursor(n) == [rows |-> ResultSet(n), pos |-> 0, nexts |-> 0, closed |-> 0]

----------------------------------------------------------------------------
\* One entry of a call's log: a call made on a collaborator, with its argument.
Ev(name, arg) == [ev |-> name, arg |-> arg]

Logged(call, name, arg) == [call EXCEPT !.log = Append(@, Ev(name, arg))]

\* The call ends by raising err (the promise rejects).
Throw(call, err) == [call EXCEPT !.pc = "done", !.outcome = err]

\* A collaborator called by the call raises err.  No function of the adapter
\* has a catch block, so the error leaves the call as it is (through the
\* finally block when raised inside a try block).
Raise(call, err) == Throw([call EXCEPT !.raised = Some(err)], err)

\* The call ends by returning v (the promise resolves).
Return(call, v) == [call EXCEPT !.pc = "done", !.outcome = "ok", !.ret = v]

IdleCall ==
    [op |-> "none", pc |-> "idle", record |-> None, sqlArg |-> None,
     params |-> None, sql |-> None, bind |-> <<>>, rows |-> 0, log |-> <<>>,
     outcome |-> "none", ret |-> None, yielded |-> <<>>, advances |-> 0,
     late |-> FALSE, raised |-> None]

\* A call entered with these arguments.
Entered(op, record, sqlArg, params) ==
    [IdleCall EXCEPT !.op = op, !.record = record, !.sqlArg = sqlArg,
                     !.params = params]

Init ==
    /\ flags \in AllFlags
    /\ calls = [c \in Callers |-> IdleCall]
    /\ cursors = <<>>

----------------------------------------------------------------------------
\* rows.row: the row the cursor is positioned on.
RowOf(cs, k) == cs[k].rows[cs[k].pos]

\* `has` of the pending rows.next(): the cursor has a row after its position.
HasNext(k) == cursors[k].pos < Len(cursors[k].rows)

\* rows.next() resolves true: the cursor is positioned on its next row.
Advanced(cs, k) == [cs EXCEPT ![k].pos = @ + 1]

\* rows.next() is called on the call's cursor; the answer is awaited at pc.
CallNext(call, pc) == [Logged(call, "next", call.rows) EXCEPT !.pc = pc]
NextCalled(cs, k) == [cs EXCEPT ![k].nexts = @ + 1]

\* Faulty variant of Finally: rows.close() as the last statement of the try block
\* instead of in a finally block, so an exit by an error skips it.
FinallyOnSuccessOnly(call, cs) ==
    IF call.outcome = "ok"
    THEN [call |-> Logged(call, "close", call.rows),
          cursors |-> [cs EXCEPT ![call.rows].closed = @ + 1]]
    ELSE [call |-> call, cursors |-> cs]

\* Faulty variant of Finally: `rows` kept in a field of the adapter instead of
\* a local of the call, so the block closes the cursor opened last by any
\* call.
FinallySharedRows(call, cs) ==
    [call |-> Logged(call, "close", Len(cs)),
     cursors |-> [cs EXCEPT ![Len(cs)].closed = @ + 1]]

\* finally { rows.close(); }: runs on every exit of the try block, whether
\* the block returned or raised (call is the call as the block left it).
Finally(call, cs) ==
    [call |-> Logged(call, "close", call.rows),
     cursors |-> [cs EXCEPT ![call.rows].closed = @ + 1]]

\* The try block is left with `call`, the cursors being cs.
ExitTry(c, call, cs) ==
    /\ calls' = [calls EXCEPT ![c] = Finally(call, cs).call]
    /\ cursors' = Finally(call, cs).cursors

\* db.query(ctx, sql, ...params) / db.exec(ctx, sql, ...args) is called with
\* these positional arguments after ctx and sql; the answer is awaited at pc.
CallDb(call, fn, sql, args, pc) ==
    [Logged(call, fn, [sql |-> sql, args |-> args]) EXCEPT !.pc = pc]

----------------------------------------------------------------------------
\* Faulty variant of insertPath: the generated-id branch taken whenever the full-row
\* branch is not (the test of generatedId lost).
insertPathNoPlain(fs) ==
    IF hasMappingFlag(fs, generatedOnInsert) THEN "L57" ELSE "L72"

\* Faulty variant of insertPath: generatedId tested before generatedOnInsert.
insertPathIdFirst(fs) ==
    IF hasMappingFlag(fs, generatedId) THEN "L72"
    ELSE IF hasMappingFlag(fs, generatedOnInsert) THEN "L57"
    ELSE "L87"

\* insert, lines 55-88: which of the three branches the flags select, named
\* by the line of its await.
insertPath(fs) ==
    IF hasMappingFlag(fs, generatedOnInsert) THEN "L57"
    ELSE IF hasMappingFlag(fs, generatedId) THEN "L72"
    ELSE "L87"

\* update, lines 108-126.
updatePath(fs) ==
    IF hasMappingFlag(fs, generatedOnUpdate) THEN "L110" ELSE "L125"

\* The executor function a branch calls.
DbFn(pc) == IF pc \in {"L87", "L125", "L141"} THEN "exec" ELSE "query"

\* Faulty variant of WriteCall: the parameters are extracted before the statement
\* is tested for null.
WriteCallParamsFirst(call, sqlFn, sql, paramsFn, fault, args, pc) ==
    LET c1 == [Logged(call, sqlFn, <<>>) EXCEPT !.sql = sql]
        c2 == Logged(c1, paramsFn, call.record[1].id)
    IN  IF fault = "params" THEN Raise(c2, MapperError)
        ELSE IF sql = None THEN Throw(c2, MISSING_STATEMENT)
        ELSE IF fault = "require" THEN Raise(c2, ContextError)
        ELSE CallDb([c2 EXCEPT !.bind = args], DbFn(pc), sql[1], args, pc)

\* Faulty variant of WriteCall: the parameters are extracted first and the
\* statement is resolved after them.
WriteCallExtractFirst(call, sqlFn, sql, paramsFn, fault, args, pc) ==
    LET c1 == Logged(call, paramsFn, call.record[1].id)
        c2 == [Logged(c1, sqlFn, <<>>) EXCEPT !.sql = sql]
    IN  IF fault = "params" THEN Raise(c1, MapperError)
        ELSE IF sql = None THEN Throw(c2, MISSING_STATEMENT)
        ELSE IF fault = "require" THEN Raise(c2, ContextError)
        ELSE CallDb([c2 EXCEPT !.bind = args], DbFn(pc), sql[1], args, pc)

\* insert / update / delete up to the first await (lines 38-47, 91-100,
\* 129-138, then the branch): resolve the statement, raise MissingStatement
\* if it is null, extract the parameters (the mapper may raise), call the
\* executor.  args is what is passed to the executor after ctx and sql.
\* fault names the collaborator call that raises, if one does: "require"
\* (Context.as(ctx).require(getDbApi): ctx carries no DbApi) or "params".
WriteCall(call, sqlFn, sql, paramsFn, fault, args, pc) ==
    LET c1 == [Logged(call, sqlFn, <<>>) EXCEPT !.sql = sql]
        c2 == Logged(c1, paramsFn, call.record[1].id)
    IN  IF sql = None THEN Throw(c1, MISSING_STATEMENT)
        ELSE IF fault = "require" THEN Raise(c1, ContextError)
        ELSE IF fault = "params" THEN Raise(c2, MapperError)
        ELSE CallDb([c2 EXCEPT !.bind = args], DbFn(pc), sql[1], args, pc)

\* async insert(ctx, record), lines 38-57 / 72 / 87.
InsertCall(c) ==
    /\ calls[c].pc = "idle"
    /\ \E record \in CallerRecords(c), sql \in InsertSQLs, fault \in {"none", "require", "params"} :
         calls' = [calls EXCEPT ![c] =
            WriteCall(Entered("insert", Some(record), None, None),
                      "getInsertSQL", sql, "getInsertParams", fault,
                      getInsertParams(record), insertPath(flags))]
    /\ UNCHANGED <<flags, cursors>>

\* async update(ctx, record), lines 91-110 / 125.
UpdateCall(c) ==
    /\ calls[c].pc = "idle"
    /\ \E record \in CallerRecords(c), sql \in UpdateSQLs, fault \in {"none", "require", "params"} :
         calls' = [calls EXCEPT ![c] =
            WriteCall(Entered("update", Some(record), None, None),
                      "getUpdateSQL", sql, "getUpdateParams", fault,
                      getUpdateParams(record), updatePath(flags))]
    /\ UNCHANGED <<flags, cursors>>

\* async delete(ctx, record), lines 129-141.  Line 141 passes the params
\* array itself as the one argument after sql (it is not spread).
DeleteCall(c) ==
    /\ calls[c].pc = "idle"
    /\ \E record \in CallerRecords(c), sql \in DeleteSQLs, fault \in {"none", "require", "params"} :
         calls' = [calls EXCEPT ![c] =
            WriteCall(Entered("delete", Some(record), None, None),
                      "getDeleteSQL", sql, "getDeleteParams", fault,
                      <<getDeleteParams(record)>>, "L141")]
    /\ UNCHANGED <<flags, cursors>>

\* await db.exec(...) at lines 87, 125, 141: the command completes and the
\* call returns, or it fails and the error leaves the call.
ExecSettle(c) ==
    /\ calls[c].pc \in {"L87", "L125", "L141"}
    /\ \E ok \in BOOLEAN :
         calls' = [calls EXCEPT ![c] =
            IF ok THEN Return(@, None) ELSE Raise(@, ExecutorError)]
    /\ UNCHANGED <<flags, cursors>>

\* The line of `await rows.next()` that follows each `await db.query(...)`.
NextLine(pc) ==
    CASE pc = "L57" -> "L59"
      [] pc = "L72" -> "L74"
      [] pc = "L110" -> "L112"
      [] pc = "L170" -> "L172"
      [] pc = "L212" -> "L214"

\* await db.query(...) at lines 57, 72, 110, 170, 212 resolves with a new
\* Rows object; the call enters its try block and calls rows.next().
QueryResolve(c) ==
    /\ calls[c].pc \in {"L57", "L72", "L110", "L170", "L212"}
    /\ \E n \in 0..MaxRows :
         LET k == Len(cursors) + 1 IN
         /\ cursors' = NextCalled(Append(cursors, NewCursor(n)), k)
         /\ calls' = [calls EXCEPT ![c] =
               CallNext([@ EXCEPT !.rows = k], NextLine(@.pc))]
    /\ UNCHANGED flags

\* Faulty variant of QueryReject: the failed query is issued once more before
\* the error is let through.
QueryRejectRetry(c) ==
    /\ calls[c].pc \in {"L57", "L72", "L110", "L170", "L212"}
    /\ calls' = [calls EXCEPT ![c] =
          IF Len(@.log) < 2 \/ @.log[Len(@.log) - 1].ev # "query"
          THEN CallDb(@, "query", @.sql[1], @.bind, @.pc)
          ELSE Raise(@, ExecutorError)]
    /\ UNCHANGED <<flags, cursors>>

\* Faulty variant of QueryReject: the query awaited inside the try block, so
\* its failure runs the finally block, which closes a cursor that was never
\* returned.
QueryRejectInsideTry(c) ==
    /\ calls[c].pc \in {"L57", "L72", "L110", "L170", "L212"}
    /\ calls' = [calls EXCEPT ![c] =
          Logged(Raise(@, ExecutorError), "close", @.rows)]
    /\ UNCHANGED <<flags, cursors>>

\* await db.query(...) fails: the error leaves the call, outside any try.
QueryReject(c) ==
    /\ calls[c].pc \in {"L57", "L72", "L110", "L170", "L212"}
    /\ calls' = [calls EXCEPT ![c] = Raise(@, ExecutorError)]
    /\ UNCHANGED <<flags, cursors>>

----------------------------------------------------------------------------
\* Faulty variant of LoadRow: the `if (!has) throw` test left out, so a result
\* without a row ends the call quietly.
LoadRowUnchecked(c) ==
    LET call == calls[c]
        k == call.rows
        cs == Advanced(cursors, k)
        loading == Logged(call, "load",
                          [row |-> RowOf(cs, k), rec |-> call.record[1].id])
    IN  \/ ExitTry(c, Raise(call, ExecutorError), cursors)
        \/ /\ ~HasNext(k)
           /\ ExitTry(c, Return(call, None), cursors)
        \/ /\ HasNext(k)
           /\ \/ ExitTry(c, Raise(loading, MapperError), cs)
              \/ ExitTry(c, Return([loading EXCEPT !.record =
                                Some(load(RowOf(cs, k), call.record[1]))],
                            None), cs)

\* Lines 59-69 (and 112-122): the answer of rows.next() inside the try
\* block of a full-row branch.  The row is required and loaded onto the
\* caller's record; every exit runs the finally block.
LoadRow(c) ==
    LET call == calls[c]
        k == call.rows
        cs == Advanced(cursors, k)
        loading == Logged(call, "load",
                          [row |-> RowOf(cs, k), rec |-> call.record[1].id])
    IN  \/ ExitTry(c, Raise(call, ExecutorError), cursors)
        \/ /\ ~HasNext(k)
           /\ ExitTry(c, Throw(call, NON_QUERY), cursors)
        \/ /\ HasNext(k)
           /\ \/ ExitTry(c, Raise(loading, MapperError), cs)
              \/ ExitTry(c, Return([loading EXCEPT !.record =
                                Some(load(RowOf(cs, k), call.record[1]))],
                            None), cs)

\* Faulty variant of FirstColumn: rows.row[1], the second column.
SecondColumn(row) == row[2]

\* rows.row[0], line 81: the first column of the row.
FirstColumn(row) == row[1]

\* Faulty variant of SetKeyFromRow: setKey called before `if (!has) throw`,
\* so a result without a row clears the key of the record.
SetKeyBeforeCheck(c) ==
    LET call == calls[c]
        k == call.rows
        cs == Advanced(cursors, k)
        key == IF HasNext(k) THEN FirstColumn(RowOf(cs, k)) ELSE 0
        setting == Logged(call, "setKey", [rec |-> call.record[1].id, key |-> key])
        keyed == [setting EXCEPT !.record = Some(setKey(call.record[1], key))]
    IN  \/ ExitTry(c, Raise(call, ExecutorError), cursors)
        \/ /\ ~HasNext(k)
           /\ ExitTry(c, Throw(keyed, NON_QUERY), cursors)
        \/ /\ HasNext(k)
           /\ \/ ExitTry(c, Raise(setting, MapperError), cs)
              \/ ExitTry(c, Return(keyed, None), cs)

\* Lines 74-84: the answer of rows.next() in the generated-id branch.
SetKeyFromRow(c) ==
    LET call == calls[c]
        k == call.rows
        cs == Advanced(cursors, k)
        key == FirstColumn(RowOf(cs, k))
        setting == Logged(call, "setKey", [rec |-> call.record[1].id, key |-> key])
    IN  \/ ExitTry(c, Raise(call, ExecutorError), cursors)
        \/ /\ ~HasNext(k)
           /\ ExitTry(c, Throw(call, NON_QUERY), cursors)
        \/ /\ HasNext(k)
           /\ \/ ExitTry(c, Raise(setting, MapperError), cs)
              \/ ExitTry(c, Return([setting EXCEPT !.record =
                                Some(setKey(call.record[1], key))], None), cs)

InsertLoadRow(c) ==
    /\ calls[c].pc = "L59"
    /\ LoadRow(c)
    /\ UNCHANGED flags

InsertSetKey(c) ==
    /\ calls[c].pc = "L74"
    /\ SetKeyFromRow(c)
    /\ UNCHANGED flags

UpdateLoadRow(c) ==
    /\ calls[c].pc = "L112"
    /\ LoadRow(c)
    /\ UNCHANGED flags

----------------------------------------------------------------------------
\* Number of entries of a log that call the collaborator function `name`.
Count(log, name) == Cardinality({i \in 1..Len(log) : log[i].ev = name})

\* Faulty variant of toRecord: one record, made for the first row, is loaded again
\* for every later row.
toRecordReused(c, call, row, fault) ==
    LET record == create(c, 1)
        created == IF Count(call.log, "create") = 0
                   THEN Logged(call, "create", record.id) ELSE call
        loaded == Logged(created, "load", [row |-> row, rec |-> record.id])
    IN  [call |-> IF fault = "create" THEN created ELSE loaded,
         record |-> load(row, record)]

\* toRecord(row), lines 32-36: a new record from mapper.create(), loaded
\* from the row.  fault names the mapper call that raises, if one does.
\* Gives the call as the mapper calls leave it, and the record.
toRecord(c, call, row, fault) ==
    LET record == create(c, Count(call.log, "create") + 1)
        created == Logged(call, "create", record.id)
        loaded == Logged(created, "load", [row |-> row, rec |-> record.id])
    IN  [call |-> IF fault = "create" THEN created ELSE loaded,
         record |-> load(row, record)]

\* Faulty variant of SelectQuery: the test for SQL text given by the caller
\* left out, so the SqlSource is asked in every case.
SelectQueryAlwaysAsks(call, requireOk, pc) ==
    LET cols == Keys(IF call.params = None THEN EmptyMap ELSE call.params[1])
        sql == getSelectSQL(cols)
        c1 == Logged(call, "getSelectSQL", cols)
        c2 == [c1 EXCEPT !.sql = Some(sql), !.bind = toParamArray(call.params)]
    IN  IF ~requireOk THEN Raise(c2, ContextError)
        ELSE CallDb(c2, "query", sql, c2.bind, pc)

\* selectOne / selectMany up to the await of db.query (lines 155-170,
\* 197-212): the SQL is the text given, or else asked of the SqlSource over
\* the keys of the filter map; the DbApi is looked up (which may raise);
\* the query is issued with the map's values.
SelectQuery(call, requireOk, pc) ==
    LET given == call.sqlArg # None
        cols == Keys(IF call.params = None THEN EmptyMap ELSE call.params[1])
        sql == IF given THEN call.sqlArg[1] ELSE getSelectSQL(cols)
        c1 == IF given THEN call ELSE Logged(call, "getSelectSQL", cols)
        c2 == [c1 EXCEPT !.sql = Some(sql), !.bind = toParamArray(call.params)]
    IN  IF ~requireOk THEN Raise(c2, ContextError)
        ELSE CallDb(c2, "query", sql, c2.bind, pc)

\* async selectOne(ctx, sqlOrParams, params?), lines 150-170.
SelectOneCall(c) ==
    /\ calls[c].pc = "idle"
    /\ \E a \in SelectArgs, requireOk \in BOOLEAN :
         calls' = [calls EXCEPT ![c] =
            SelectQuery(Entered("selectOne", None, a.sql, a.params),
                        requireOk, "L170")]
    /\ UNCHANGED <<flags, cursors>>

\* Faulty variant of SelectOneRow: a result without a row treated as in insert and
\* update, by raising NON_QUERY.
SelectOneRowRequired(c) ==
    /\ calls[c].pc = "L172"
    /\ LET call == calls[c]
           k == call.rows
           cs == Advanced(cursors, k)
       IN  \/ ExitTry(c, Raise(call, ExecutorError), cursors)
           \/ /\ ~HasNext(k)
              /\ ExitTry(c, Throw(call, NON_QUERY), cursors)
           \/ /\ HasNext(k)
              /\ \E fault \in {"none", "create", "load"} :
                   LET r == toRecord(c, call, RowOf(cs, k), fault) IN
                   IF fault = "none"
                   THEN ExitTry(c, Return(r.call, Some(r.record)), cs)
                   ELSE ExitTry(c, Raise(r.call, MapperError), cs)
    /\ UNCHANGED flags

\* Faulty variant of SelectOneRow: the cursor is closed as soon as rows.next()
\* has answered, and the row is read from the closed cursor.
SelectOneRowCloseFirst(c) ==
    /\ calls[c].pc = "L172"
    /\ LET call == calls[c]
           k == call.rows
           cs == Advanced(cursors, k)
       IN  \/ ExitTry(c, Raise(call, ExecutorError), cursors)
           \/ /\ ~HasNext(k)
              /\ ExitTry(c, Return(call, None), cursors)
           \/ /\ HasNext(k)
              /\ \E fault \in {"none", "create", "load"} :
                   LET closing == Finally(call, cs)
                       r == toRecord(c, closing.call, RowOf(cs, k), fault)
                   IN  /\ cursors' = closing.cursors
                       /\ calls' = [calls EXCEPT ![c] =
                             IF fault = "none" THEN Return(r.call, Some(r.record))
                             ELSE Raise(r.call, MapperError)]
    /\ UNCHANGED flags

\* Lines 172-179: the answer of rows.next() in selectOne.
SelectOneRow(c) ==
    /\ calls[c].pc = "L172"
    /\ LET call == calls[c]
           k == call.rows
           cs == Advanced(cursors, k)
       IN  \/ ExitTry(c, Raise(call, ExecutorError), cursors)
           \/ /\ ~HasNext(k)
              /\ ExitTry(c, Return(call, None), cursors)
           \/ /\ HasNext(k)
              /\ \E fault \in {"none", "create", "load"} :
                   LET r == toRecord(c, call, RowOf(cs, k), fault) IN
                   IF fault = "none"
                   THEN ExitTry(c, Return(r.call, Some(r.record)), cs)
                   ELSE ExitTry(c, Raise(r.call, MapperError), cs)
    /\ UNCHANGED flags

\* Faulty variant of SelectManyCall: an async function that issues the query when
\* it is called, not a generator.
SelectManyCallEager(c) ==
    /\ calls[c].pc = "idle"
    /\ \E a \in SelectArgs, requireOk \in BOOLEAN :
         calls' = [calls EXCEPT ![c] =
            SelectQuery(Entered("selectMany", None, a.sql, a.params),
                        requireOk, "L212")]
    /\ UNCHANGED <<flags, cursors>>

\* selectMany(ctx, sqlOrParams, params?), line 192: an async generator
\* function; the call makes the generator object and runs none of the body.
SelectManyCall(c) ==
    /\ calls[c].pc = "idle"
    /\ \E a \in SelectArgs :
         calls' = [calls EXCEPT ![c] =
            [Entered("selectMany", None, a.sql, a.params) EXCEPT !.pc = "start"]]
    /\ UNCHANGED <<flags, cursors>>

\* selectAll(ctx), lines 182-184: selectMany with an empty filter map.
SelectAllCall(c) ==
    /\ calls[c].pc = "idle"
    /\ calls' = [calls EXCEPT ![c] =
          [Entered("selectAll", None, None, Some(EmptyMap)) EXCEPT !.pc = "start"]]
    /\ UNCHANGED <<flags, cursors>>

\* The consumer's first next() on the sequence: the body runs from line 197
\* to the await of db.query at line 212.
SelectManyStart(c) ==
    /\ calls[c].pc = "start"
    /\ \E requireOk \in BOOLEAN :
         calls' = [calls EXCEPT ![c] =
            SelectQuery([@ EXCEPT !.advances = @ + 1], requireOk, "L212")]
    /\ UNCHANGED <<flags, cursors>>

\* Lines 214-219: the answer of rows.next() in the loop of selectMany: a
\* record is made of the row and yielded (the generator suspends at line
\* 215 inside the try block), or the loop or an error leaves the block.
SelectManyRow(c) ==
    /\ calls[c].pc = "L214"
    /\ LET call == calls[c]
           k == call.rows
           cs == Advanced(cursors, k)
       IN  \/ ExitTry(c, Raise(call, ExecutorError), cursors)
           \/ /\ ~HasNext(k)
              /\ ExitTry(c, Return(call, None), cursors)
           \/ /\ HasNext(k)
              /\ \E fault \in {"none", "create", "load"} :
                   LET r == toRecord(c, call, RowOf(cs, k), fault) IN
                   IF fault = "none"
                   THEN /\ calls' = [calls EXCEPT ![c] =
                              [r.call EXCEPT !.pc = "L215",
                                             !.yielded = Append(@, r.record)]]
                        /\ cursors' = cs
                   ELSE ExitTry(c, Raise(r.call, MapperError), cs)
    /\ UNCHANGED flags

\* The consumer's next() on a sequence suspended at the yield of line 215:
\* the loop goes on to its condition and calls rows.next().
SelectManyResume(c) ==
    /\ calls[c].pc = "L215"
    /\ calls' = [calls EXCEPT ![c] =
          CallNext([@ EXCEPT !.advances = @ + 1], "L214")]
    /\ cursors' = NextCalled(cursors, calls[c].rows)
    /\ UNCHANGED flags

\* Faulty variant of SelectManyAbandon: the loop of selectMany without its
\* try / finally, so a return() at the yield runs no cleanup.
SelectManyAbandonNoFinally(c) ==
    /\ calls[c].pc = "L215"
    /\ calls' = [calls EXCEPT ![c] = Return(@, None)]
    /\ UNCHANGED <<flags, cursors>>

\* The consumer's return() (a for-await loop left early) on a sequence
\* suspended at the yield: the try block is left, the finally block runs.
SelectManyAbandon(c) ==
    /\ calls[c].pc = "L215"
    /\ ExitTry(c, Return(calls[c], None), cursors)
    /\ UNCHANGED flags

\* The consumer's return() on a sequence whose body has not started: the
\* generator completes and the body never runs.
SelectManyDrop(c) ==
    /\ calls[c].pc = "start"
    /\ calls' = [calls EXCEPT ![c] = Return(@, None)]
    /\ UNCHANGED <<flags, cursors>>

\* Faulty variant of SelectManyAfterDone: a restartable sequence, whose body runs
\* again from its first line when it is traversed after completing.
SelectManyAfterDoneRestart(c) ==
    /\ calls[c].pc = "done"
    /\ calls[c].op \in {"selectMany", "selectAll"}
    /\ ~calls[c].late
    /\ calls' = [calls EXCEPT ![c] =
          SelectQuery([@ EXCEPT !.late = TRUE, !.outcome = "none"], TRUE, "L212")]
    /\ UNCHANGED <<flags, cursors>>

\* The consumer's next() on a sequence that has completed: the generator
\* answers done and runs nothing (late: the consumer has done so).
SelectManyAfterDone(c) ==
    /\ calls[c].pc = "done"
    /\ calls[c].op \in {"selectMany", "selectAll"}
    /\ calls' = [calls EXCEPT ![c].late = TRUE]
    /\ UNCHANGED <<flags, cursors>>

----------------------------------------------------------------------------
\* A step of the call of caller c, or of the executor or the consumer on it.
Step(c) ==
        \/ InsertCall(c)
        \/ UpdateCall(c)
        \/ DeleteCall(c)
        \/ SelectOneCall(c)
        \/ SelectManyCall(c)
        \/ SelectAllCall(c)
        \/ ExecSettle(c)
        \/ QueryResolve(c)
        \/ QueryReject(c)
        \/ InsertLoadRow(c)
        \/ InsertSetKey(c)
        \/ UpdateLoadRow(c)
        \/ SelectOneRow(c)
        \/ SelectManyStart(c)
        \/ SelectManyRow(c)
        \/ SelectManyResume(c)
        \/ SelectManyAbandon(c)
        \/ SelectManyDrop(c)
        \/ SelectManyAfterDone(c)

\* Calls of all callers, interleaved at their suspension points.
Next == \E c \in Callers : Step(c)

Spec == Init /\ [][Next]_vars

\* The adapter used by one caller alone, the other never calling.
SoloNext == Step(1)

SoloSpec == Init /\ [][SoloNext]_vars

----------------------------------------------------------------------------
\* Vocabulary of the properties.
WriteOps == {"insert", "update", "delete"}
SequenceOps == {"selectMany", "selectAll"}
N(c, name) == Count(calls[c].log, name)
Done(c) == calls[c].pc = "done"

\* The call of caller c holds a cursor that db.query returned to it.
HasCursor(c) == calls[c].rows # 0
CursorOf(c) == cursors[calls[c].rows]

\* The cursor of c's call has been closed exactly once if the call has
\* completed, and not at all while it has not.
ClosedOnceAtExit(c) ==
    /\ CursorOf(c).closed = (IF Done(c) THEN 1 ELSE 0)
    /\ N(c, "close") = CursorOf(c).closed

\* C1: in insert (generatedOnInsert or generatedId branch), update
\* (generatedOnUpdate branch) and selectOne, a cursor that db.query returned
\* is closed exactly once by the time the call completes, however the call
\* ends (row consumed, no row, rows.next() raised, the mapper raised), and is
\* not closed before.
C1_CursorClosedOnce ==
    \A c \in Callers :
        calls[c].op \in {"insert", "update", "selectOne"} /\ HasCursor(c)
            => ClosedOnceAtExit(c)

\* C1 witness: one call ended by a mapper error raised while its row was being
\* consumed and another ended by a rows.next() error, both cursors closed once.
C1_Witness ==
    \E c, d \in Callers :
        /\ calls[c].op = "insert" /\ calls[c].outcome = MapperError
        /\ HasCursor(c) /\ CursorOf(c).closed = 1 /\ CursorOf(c).pos = 1
        /\ calls[d].op = "selectOne" /\ calls[d].outcome = ExecutorError
        /\ HasCursor(d) /\ CursorOf(d).closed = 1

\* C2: a selectMany / selectAll sequence that has opened a cursor has closed
\* it exactly once when the traversal has ended (result set exhausted,
\* iteration abandoned after any number of yielded records, or an error of
\* rows.next(), create or load), and not at all before.
C2_SequenceCursorClosedOnce ==
    \A c \in Callers :
        calls[c].op \in SequenceOps /\ HasCursor(c) => ClosedOnceAtExit(c)

\* The sequence of c was abandoned by the consumer after k records.
AbandonedAfter(c, k) ==
    /\ calls[c].op \in SequenceOps /\ Done(c) /\ calls[c].outcome = "ok"
    /\ HasCursor(c) /\ Len(calls[c].yielded) = k /\ CursorOf(c).nexts = k

\* C2 witness: a sequence abandoned after one record of two, its cursor closed
\* once, beside a sequence ended by a mapper error.
C2_Witness ==
    \E c, d \in Callers :
        /\ AbandonedAfter(c, 1) /\ Len(CursorOf(c).rows) = 2
        /\ CursorOf(c).closed = 1
        /\ calls[d].op \in SequenceOps /\ calls[d].outcome = MapperError
        /\ HasCursor(d) /\ CursorOf(d).closed = 1

\* C3: when the SqlSource answers null for the statement of insert, update or
\* delete, the call fails with MissingStatement having made no other call on
\* a collaborator: no get*Params, no exec or query, no cursor.
C3_MissingStatementFirst ==
    \A c \in Callers :
        calls[c].op \in WriteOps /\ calls[c].sql = None
            => /\ Done(c)
               /\ calls[c].outcome = MISSING_STATEMENT
               /\ Len(calls[c].log) = 1
               /\ calls[c].log[1].ev \in {"getInsertSQL", "getUpdateSQL", "getDeleteSQL"}
               /\ calls[c].rows = 0

\* C3 witness: a delete and an update, both failed with MissingStatement.
C3_Witness ==
    \E c, d \in Callers :
        /\ calls[c].op = "delete" /\ calls[c].outcome = MISSING_STATEMENT
        /\ calls[d].op = "update" /\ calls[d].outcome = MISSING_STATEMENT

\* The entries of c's log that call `name`.
Entries(c, name) == {i \in 1..Len(calls[c].log) : calls[c].log[i].ev = name}

\* The record the caller passed, as it is now, and as the caller passed it.
RecordOf(c) == calls[c].record[1]
PassedRecord(c) == CHOOSE r \in CallerRecords(c) : r.id = RecordOf(c).id

\* The call ended on an error raised before the executor was reached: by the
\* lookup of the DbApi in ctx or by get*Params.
RaisedBeforeExecutor(c) ==
    /\ Done(c)
    /\ calls[c].outcome \in {ContextError, MapperError}
    /\ N(c, "exec") + N(c, "query") = 0

\* C4: with neither generatedId nor generatedOnInsert set and an insert
\* statement defined, insert issues exactly one exec (none only if the DbApi
\* lookup or getInsertParams raised before the executor was reached), no
\* query, opens no cursor and never calls load or setKey.
C4_PlainInsertExecsOnce ==
    \A c \in Callers :
        /\ calls[c].op = "insert"
        /\ ~hasMappingFlag(flags, generatedId)
        /\ ~hasMappingFlag(flags, generatedOnInsert)
        /\ calls[c].sql # None
        => /\ N(c, "exec") = (IF RaisedBeforeExecutor(c) THEN 0 ELSE 1)
           /\ N(c, "query") = 0
           /\ calls[c].rows = 0 /\ N(c, "next") = 0 /\ N(c, "close") = 0
           /\ N(c, "load") = 0 /\ N(c, "setKey") = 0
           /\ RecordOf(c) = PassedRecord(c)

\* C4 witness: with generatedOnUpdate alone set, an insert has returned after
\* one exec.
C4_Witness ==
    \E c \in Callers :
        /\ flags = generatedOnUpdate
        /\ calls[c].op = "insert" /\ calls[c].outcome = "ok"
        /\ N(c, "exec") = 1

\* C5: insert in the generated-id branch (generatedId set, generatedOnInsert
\* not).  The cursor is advanced exactly once and one query is the call's
\* only execution.  With no row the call fails with NON_QUERY (or with the
\* error rows.next() raised) and setKey is never called; with a row setKey
\* is called exactly once, with the caller's record and the first column of
\* that row, and on return the record's key is that value.
C5_GeneratedIdSetsKey ==
    \A c \in Callers :
        /\ calls[c].op = "insert"
        /\ hasMappingFlag(flags, generatedId)
        /\ ~hasMappingFlag(flags, generatedOnInsert)
        /\ HasCursor(c)
        => LET cur == CursorOf(c) IN
           /\ N(c, "query") = 1 /\ N(c, "exec") = 0
           /\ cur.nexts = 1 /\ N(c, "next") = 1 /\ cur.pos <= 1
           /\ N(c, "load") = 0
           /\ ~Done(c) => N(c, "setKey") = 0
           /\ Done(c) /\ cur.pos = 0
                => /\ N(c, "setKey") = 0
                   /\ calls[c].outcome \in {NON_QUERY, ExecutorError}
                   /\ Len(cur.rows) > 0 => calls[c].outcome = ExecutorError
                   /\ RecordOf(c) = PassedRecord(c)
           /\ Done(c) /\ cur.pos = 1
                => /\ N(c, "setKey") = 1
                   /\ \A i \in Entries(c, "setKey") :
                        calls[c].log[i].arg =
                            [rec |-> PassedRecord(c).id, key |-> cur.rows[1][1]]
                   /\ calls[c].outcome \in {"ok", MapperError}
                   /\ calls[c].outcome = "ok"
                        => RecordOf(c) =
                             [PassedRecord(c) EXCEPT !.key = cur.rows[1][1]]

\* C5 witness: both outcomes, a key set from the first of two rows and a
\* NON_QUERY failure over an empty result.
C5_Witness ==
    \E c, d \in Callers :
        /\ flags = generatedId
        /\ calls[c].op = "insert" /\ calls[c].outcome = "ok"
        /\ HasCursor(c) /\ Len(CursorOf(c).rows) = 2
        /\ RecordOf(c).key = 11 /\ N(c, "setKey") = 1
        /\ calls[d].op = "insert" /\ calls[d].outcome = NON_QUERY
        /\ N(d, "setKey") = 0

\* The call of c is in a full-row branch: insert with generatedOnInsert, or
\* update with generatedOnUpdate.
FullRowCall(c) ==
    \/ calls[c].op = "insert" /\ hasMappingFlag(flags, generatedOnInsert)
    \/ calls[c].op = "update" /\ hasMappingFlag(flags, generatedOnUpdate)

\* C6: in a full-row branch, when the cursor yields a row load is called
\* exactly once, with that first row and the caller's record; when it yields
\* none load is never called, the call fails with NON_QUERY, and the cursor
\* was closed (the last thing the call did) before the error left the call.
C6_FullRowLoadsOnce ==
    \A c \in Callers :
        FullRowCall(c) /\ HasCursor(c)
        => LET cur == CursorOf(c) IN
           /\ cur.nexts = 1 /\ cur.pos <= 1
           /\ N(c, "setKey") = 0
           /\ ~Done(c) => N(c, "load") = 0
           /\ Done(c) /\ cur.pos = 0
                => /\ N(c, "load") = 0
                   /\ calls[c].outcome \in {NON_QUERY, ExecutorError}
                   /\ Len(cur.rows) > 0 => calls[c].outcome = ExecutorError
                   /\ RecordOf(c) = PassedRecord(c)
           /\ Done(c) /\ cur.pos = 1
                => /\ N(c, "load") = 1
                   /\ \A i \in Entries(c, "load") :
                        calls[c].log[i].arg =
                            [row |-> cur.rows[1], rec |-> PassedRecord(c).id]
                   /\ calls[c].outcome \in {"ok", MapperError}
                   /\ calls[c].outcome = "ok"
                        => /\ RecordOf(c).key = cur.rows[1][1]
                           /\ RecordOf(c).val = cur.rows[1][2]
           /\ calls[c].outcome = NON_QUERY
                => /\ Len(cur.rows) = 0
                   /\ cur.closed = 1
                   /\ calls[c].log[Len(calls[c].log)].ev = "close"

\* C6 witness: an update failed with NON_QUERY over an empty result, its
\* cursor closed, beside an insert that loaded the first of two rows.
C6_Witness ==
    \E c, d \in Callers :
        /\ calls[c].op = "update" /\ calls[c].outcome = NON_QUERY
        /\ CursorOf(c).closed = 1 /\ N(c, "load") = 0
        /\ calls[d].op = "insert" /\ calls[d].outcome = "ok"
        /\ HasCursor(d) /\ Len(CursorOf(d).rows) = 2 /\ N(d, "load") = 1
        /\ RecordOf(d).val = 12

\* C7: selectOne over a result without rows returns null and raises no
\* error; over one or more rows it advances the cursor exactly once, builds
\* one record by create and load from the first row, returns it, and closes
\* the cursor positioned on that first row.
C7_SelectOneFirstRow ==
    \A c \in Callers :
        calls[c].op = "selectOne" /\ HasCursor(c)
        => LET cur == CursorOf(c) IN
           /\ cur.nexts = 1 /\ N(c, "next") = 1 /\ cur.pos <= 1
           /\ calls[c].outcome \notin {NON_QUERY, MISSING_STATEMENT}
           /\ ~Done(c) => N(c, "create") = 0 /\ N(c, "load") = 0
           /\ Done(c) /\ calls[c].outcome # ExecutorError
                => cur.pos = (IF Len(cur.rows) = 0 THEN 0 ELSE 1)
           /\ Done(c) /\ cur.pos = 0 /\ calls[c].outcome # ExecutorError
                => /\ calls[c].outcome = "ok" /\ calls[c].ret = None
                   /\ N(c, "create") = 0 /\ N(c, "load") = 0
           /\ Done(c) /\ cur.pos = 1
                => /\ cur.closed = 1
                   /\ N(c, "create") = 1 /\ N(c, "load") <= 1
                   /\ calls[c].outcome \in {"ok", MapperError}
                   /\ calls[c].outcome = "ok"
                        => /\ N(c, "load") = 1
                           /\ calls[c].ret =
                                Some([id |-> <<c, 1>>, key |-> cur.rows[1][1],
                                      val |-> cur.rows[1][2]])
                           /\ \A i \in Entries(c, "load") :
                                calls[c].log[i].arg =
                                    [row |-> cur.rows[1], rec |-> <<c, 1>>]

\* C7 witness: a selectOne returned null over an empty result, and another
\* returned the first of two rows leaving the second unread.
C7_Witness ==
    \E c, d \in Callers :
        /\ calls[c].op = "selectOne" /\ calls[c].outcome = "ok"
        /\ HasCursor(c) /\ Len(CursorOf(c).rows) = 0 /\ calls[c].ret = None
        /\ calls[d].op = "selectOne" /\ calls[d].outcome = "ok"
        /\ HasCursor(d) /\ Len(CursorOf(d).rows) = 2 /\ CursorOf(d).pos = 1
        /\ calls[d].ret # None /\ calls[d].ret[1].key = 11

\* The sequence of c was traversed to the end of its result set: every row
\* was advanced onto and the rows.next() after the last one answered false.
Exhausted(c) ==
    /\ calls[c].op \in SequenceOps /\ Done(c) /\ calls[c].outcome = "ok"
    /\ HasCursor(c) /\ CursorOf(c).nexts = Len(CursorOf(c).rows) + 1

\* The entries of c's log that call create or load, in log order.
MapperCalls(c) ==
    SelectSeq(calls[c].log, LAMBDA e : e.ev \in {"create", "load"})

\* C8: a selectMany / selectAll sequence traversed to the end over a cursor
\* of N rows has yielded exactly N records, the i-th holding the values of
\* the i-th row, every one a different object; the mapper was called N times
\* for create and N times for load, create then load for each row in turn.
C8_YieldsEveryRowInOrder ==
    \A c \in Callers :
        Exhausted(c)
        => LET rows == CursorOf(c).rows
               out == calls[c].yielded
           IN  /\ Len(out) = Len(rows)
               /\ \A i \in 1..Len(rows) :
                    /\ out[i].key = rows[i][1] /\ out[i].val = rows[i][2]
                    /\ \A j \in 1..Len(rows) : i # j => out[i].id # out[j].id
               /\ N(c, "create") = Len(rows) /\ N(c, "load") = Len(rows)
               /\ Len(MapperCalls(c)) = 2 * Len(rows)
               /\ \A i \in 1..Len(rows) :
                    /\ MapperCalls(c)[2 * i - 1] = Ev("create", out[i].id)
                    /\ MapperCalls(c)[2 * i] =
                         Ev("load", [row |-> rows[i], rec |-> out[i].id])

\* C8 witness: a sequence traversed to the end of two rows, and one to the
\* end of an empty result.
C8_Witness ==
    \E c, d \in Callers :
        /\ Exhausted(c) /\ Len(CursorOf(c).rows) = 2
        /\ Len(calls[c].yielded) = 2
        /\ Exhausted(d) /\ Len(CursorOf(d).rows) = 0

\* Two calls of selectMany / selectAll that each opened a cursor issued one
\* query each and hold different cursors, each closed once at completion.
C9_SeparateCalls ==
    \A c, d \in Callers :
        /\ c # d
        /\ calls[c].op \in SequenceOps /\ HasCursor(c)
        /\ calls[d].op \in SequenceOps /\ HasCursor(d)
        => /\ calls[c].rows # calls[d].rows
           /\ N(c, "query") = 1 /\ N(d, "query") = 1
           /\ Done(c) => CursorOf(c).closed = 1
           /\ Done(d) => CursorOf(d).closed = 1

\* No step changes what a completed sequence has done: it yields no further
\* record, calls no collaborator (so issues no query), keeps the cursor it
\* had, which stays as it is, and remains completed.
C9_CompletedStaysCompleted ==
    \A c \in Callers :
        calls[c].op \in SequenceOps /\ Done(c)
        => /\ calls'[c].pc = "done"
           /\ calls'[c].yielded = calls[c].yielded
           /\ calls'[c].log = calls[c].log
           /\ calls'[c].rows = calls[c].rows
           /\ HasCursor(c) => cursors'[calls[c].rows] = CursorOf(c)

\* C9: a selectMany sequence is single-pass: once it is exhausted or
\* abandoned, traversing it again yields nothing, issues no query and opens
\* no cursor; two separate calls issue two queries and open two different
\* cursors, each closed exactly once.
C9_SinglePass == []C9_SeparateCalls /\ [][C9_CompletedStaysCompleted]_vars

\* C9 witness: two sequences of separate calls, one exhausted and one
\* abandoned, each of which the consumer has advanced again after completion.
C9_Witness ==
    \E c, d \in Callers :
        /\ c # d
        /\ Exhausted(c) /\ Len(CursorOf(c).rows) = 1 /\ calls[c].late
        /\ AbandonedAfter(d, 1) /\ calls[d].late
        /\ calls[c].rows # calls[d].rows

\* C10: selectMany / selectAll is lazy.  Until the consumer first advances
\* the sequence nothing has run: no statement resolved, no collaborator
\* called, no cursor.  From then on rows.next() has been called at most as
\* often as the consumer has advanced the sequence, and while the consumer
\* holds k yielded records (the sequence suspended at its yield, or advanced
\* and awaiting the next row) exactly k rows have been read and loaded.
C10_Lazy ==
    \A c \in Callers :
        calls[c].op \in SequenceOps
        => /\ calls[c].advances = 0
                => /\ calls[c].log = <<>> /\ calls[c].sql = None
                   /\ calls[c].rows = 0
           /\ N(c, "query") <= 1
           /\ HasCursor(c)
                => /\ CursorOf(c).nexts <= calls[c].advances
                   /\ N(c, "next") = CursorOf(c).nexts
                   /\ Len(calls[c].yielded) <= CursorOf(c).pos
                   /\ CursorOf(c).pos <= Len(calls[c].yielded) + 1
                   /\ calls[c].pc \in {"L214", "L215"}
                        => /\ CursorOf(c).pos = Len(calls[c].yielded)
                           /\ N(c, "load") = Len(calls[c].yielded)

\* C10 witness: a selectAll called and not yet advanced, beside a selectMany
\* suspended at its yield with one record of two handed out.
C10_Witness ==
    \E c, d \in Callers :
        /\ calls[c].op = "selectAll" /\ calls[c].pc = "start"
        /\ calls[d].op = "selectMany" /\ calls[d].pc = "L215"
        /\ Len(calls[d].yielded) = 1 /\ CursorOf(d).pos = 1
        /\ Len(CursorOf(d).rows) = 2 /\ calls[d].advances = 1

----------------------------------------------------------------------------
\* The positional arguments, after ctx and sql, of the executor calls of c.
ExecutorArgs(c) ==
    {calls[c].log[i].arg.args : i \in Entries(c, "exec") \cup Entries(c, "query")}

\* C11: delete, whatever the flags, issues exactly one exec (none if the
\* statement is missing or a collaborator raised before the executor was
\* reached) and no query, opens no cursor, never calls load or setKey, and
\* passes the executor the values of getDeleteParams as its positional
\* parameters: as many values, in the same order.
C11_DeleteBindsParams ==
    \A c \in Callers :
        calls[c].op = "delete"
        => /\ N(c, "query") = 0 /\ calls[c].rows = 0
           /\ N(c, "load") = 0 /\ N(c, "setKey") = 0
           /\ N(c, "exec") =
                (IF calls[c].sql = None \/ RaisedBeforeExecutor(c) THEN 0 ELSE 1)
           /\ \A args \in ExecutorArgs(c) :
                /\ Len(args) = Len(getDeleteParams(PassedRecord(c)))
                /\ args = getDeleteParams(PassedRecord(c))

SelectOps == {"selectOne", "selectMany", "selectAll"}

\* The filter map the caller passed (none passed counts as empty).
FilterOf(c) == IF calls[c].params = None THEN EmptyMap ELSE calls[c].params[1]

\* C12: in selectOne / selectMany / selectAll the query binds the values of
\* the filter map as positional parameters in the map's key order.  Without
\* SQL text from the caller, the SqlSource is asked once, before the query,
\* for select SQL over the map's column names in that same order, and what
\* it answers is the SQL of the query (selectAll: no columns, no
\* parameters).  With SQL text from the caller that text is the SQL of the
\* query and the SqlSource is never asked.
C12_SelectBindsFilter ==
    \A c \in Callers :
        calls[c].op \in SelectOps
        => LET m == FilterOf(c)
               log == calls[c].log
           IN  /\ calls[c].sqlArg # None => N(c, "getSelectSQL") = 0
               /\ calls[c].op = "selectAll" => calls[c].sqlArg = None /\ m = <<>>
               /\ \A i \in Entries(c, "getSelectSQL") :
                    /\ i = 1
                    /\ Len(log[i].arg) = Len(m)
                    /\ \A j \in 1..Len(m) : log[i].arg[j] = m[j].k
               /\ \A i \in Entries(c, "query") :
                    /\ Len(log[i].arg.args) = Len(m)
                    /\ \A j \in 1..Len(m) : log[i].arg.args[j] = m[j].v
                    /\ IF calls[c].sqlArg # None
                       THEN log[i].arg.sql = calls[c].sqlArg[1]
                       ELSE /\ i = 2 /\ log[1].ev = "getSelectSQL"
                            /\ log[i].arg.sql = [text |-> "SELECT", cols |-> log[1].arg]

\* C12 witness: a selectMany over the filter {status, id} without SQL text
\* has asked for SQL over <<status, id>> and bound <<active, 42>>.
C12_Witness ==
    \E c \in Callers :
        /\ calls[c].op = "selectMany" /\ calls[c].sqlArg = None
        /\ Len(calls[c].log) >= 2
        /\ calls[c].log[1] = Ev("getSelectSQL", <<"status", "id">>)
        /\ calls[c].log[2].ev = "query"
        /\ calls[c].log[2].arg.args = <<"active", "42">>

\* The call of c has reached the executor.
ReachedExecutor(c) == N(c, "exec") + N(c, "query") > 0

\* C13: insert takes one of three paths, chosen by generatedOnInsert and
\* generatedId alone: query + load when generatedOnInsert is set (also with
\* generatedId), else query + setKey when generatedId is set, else one exec;
\* load and setKey are never both called.  update takes the query + load
\* path exactly when generatedOnUpdate is set and otherwise issues one exec
\* and no load.  A call that completed normally did call what its path
\* calls.
C13_OnePathPerFlags ==
    \A c \in Callers :
        LET goi == hasMappingFlag(flags, generatedOnInsert)
            gid == hasMappingFlag(flags, generatedId)
            gou == hasMappingFlag(flags, generatedOnUpdate)
            ok == Done(c) /\ calls[c].outcome = "ok"
        IN  /\ calls[c].op = "insert"
               => /\ ~(N(c, "load") > 0 /\ N(c, "setKey") > 0)
                  /\ N(c, "load") <= 1 /\ N(c, "setKey") <= 1
                  /\ goi => N(c, "exec") = 0 /\ N(c, "setKey") = 0
                  /\ ~goi /\ gid => N(c, "exec") = 0 /\ N(c, "load") = 0
                  /\ ~goi /\ ~gid
                       => N(c, "query") = 0 /\ N(c, "load") = 0 /\ N(c, "setKey") = 0
                  /\ ReachedExecutor(c)
                       => N(c, "query") = (IF goi \/ gid THEN 1 ELSE 0)
                          /\ N(c, "exec") = (IF goi \/ gid THEN 0 ELSE 1)
                  /\ ok => /\ N(c, "load") = (IF goi THEN 1 ELSE 0)
                           /\ N(c, "setKey") = (IF ~goi /\ gid THEN 1 ELSE 0)
            /\ calls[c].op = "update"
               => /\ N(c, "setKey") = 0 /\ N(c, "load") <= 1
                  /\ gou => N(c, "exec") = 0
                  /\ ~gou => N(c, "query") = 0 /\ N(c, "load") = 0
                  /\ ReachedExecutor(c)
                       => N(c, "query") = (IF gou THEN 1 ELSE 0)
                          /\ N(c, "exec") = (IF gou THEN 0 ELSE 1)
                  /\ ok => N(c, "load") = (IF gou THEN 1 ELSE 0)

\* C13 witness: with generatedId and generatedOnInsert both set (and
\* generatedOnUpdate not), an insert completed on the full-row path.
C13_Witness ==
    \E c \in Callers :
        /\ flags = generatedId + generatedOnInsert
        /\ calls[c].op = "insert" /\ Done(c) /\ calls[c].outcome = "ok"
        /\ N(c, "query") = 1 /\ N(c, "load") = 1 /\ N(c, "setKey") = 0

\* The phase of a call that a collaborator call belongs to: 1 statement
\* resolution, 2 parameter extraction, 3 executor invocation, 4 cursor
\* consumption (advance, row read, close).
Phase(ev) ==
    CASE ev \in {"getInsertSQL", "getUpdateSQL", "getDeleteSQL", "getSelectSQL"} -> 1
      [] ev \in {"getInsertParams", "getUpdateParams", "getDeleteParams"} -> 2
      [] ev \in {"exec", "query"} -> 3
      [] OTHER -> 4

\* C14: within one call the collaborator calls come in the order statement
\* resolution, parameter extraction, executor invocation, cursor
\* consumption, each of the first three at most once; the executor is
\* invoked only with the statement resolved (and, in insert / update /
\* delete, the parameters extracted); the cursor is consumed only once the
\* query has answered with it; a row is read only right after the advance
\* onto it; and close is the last of the call's collaborator calls.
C14_PhasesInOrder ==
    \A c \in Callers :
        LET log == calls[c].log
            idx == 1..Len(log)
        IN  /\ \A i, j \in idx :
                 i < j => /\ Phase(log[i].ev) <= Phase(log[j].ev)
                          /\ Phase(log[i].ev) = Phase(log[j].ev) => Phase(log[i].ev) = 4
                          /\ log[i].ev # "close"
            /\ \A i \in idx :
                 /\ Phase(log[i].ev) = 3
                    => /\ calls[c].sql # None /\ log[i].arg.sql = calls[c].sql[1]
                       /\ calls[c].op \in WriteOps
                          => i = 3 /\ Phase(log[1].ev) = 1 /\ Phase(log[2].ev) = 2
                 /\ Phase(log[i].ev) = 4
                    => /\ calls[c].rows # 0
                       /\ \E j \in idx : j < i /\ log[j].ev = "query"
                 /\ log[i].ev \in {"create", "setKey"} => i > 1 /\ log[i - 1].ev = "next"
                 /\ log[i].ev = "load" => i > 1 /\ log[i - 1].ev \in {"next", "create"}

\* C14 witness: an insert that went through all four phases: statement,
\* parameters, query, then next, load and close.
C14_Witness ==
    \E c \in Callers :
        /\ calls[c].op = "insert" /\ Done(c) /\ Len(calls[c].log) = 6
        /\ calls[c].log[1].ev = "getInsertSQL" /\ calls[c].log[2].ev = "getInsertParams"
        /\ calls[c].log[3].ev = "query" /\ calls[c].log[4].ev = "next"
        /\ calls[c].log[5].ev = "load" /\ calls[c].log[6].ev = "close"

\* The call of c failed before a row was obtained: the statement was
\* missing, the executor's exec / query / first advance raised, or the
\* cursor had no row.
FailedBeforeRow(c) ==
    /\ Done(c)
    /\ calls[c].outcome \in {MISSING_STATEMENT, ExecutorError, NON_QUERY}

\* C15: an insert or update that fails because the statement is missing,
\* because exec / query or the first advance of the cursor raised, or
\* because the cursor had no row, ends with that error alone: the
\* caller's record is as it was passed, and load and setKey were not
\* called.  While neither load nor setKey has been called the record is
\* unchanged in every state.
C15_RecordUntouchedOnFailure ==
    \A c \in Callers :
        calls[c].op \in {"insert", "update"}
        => /\ FailedBeforeRow(c)
              => /\ RecordOf(c) = PassedRecord(c)
                 /\ N(c, "load") = 0 /\ N(c, "setKey") = 0
                 /\ calls[c].ret = None
                 /\ calls[c].outcome = MISSING_STATEMENT <=> calls[c].sql = None
                 /\ calls[c].outcome = NON_QUERY
                    => HasCursor(c) /\ CursorOf(c).rows = <<>> /\ N(c, "next") = 1
                 /\ calls[c].outcome = ExecutorError
                    => calls[c].raised = Some(ExecutorError)
           /\ N(c, "load") + N(c, "setKey") = 0 => RecordOf(c) = PassedRecord(c)

\* C15 witness: an insert on the generated-id path whose cursor had no row
\* ended with NON_QUERY, the record as passed.
C15_Witness ==
    \E c \in Callers :
        /\ calls[c].op = "insert" /\ Done(c) /\ calls[c].outcome = NON_QUERY
        /\ ~hasMappingFlag(flags, generatedOnInsert)
        /\ N(c, "next") = 1 /\ N(c, "setKey") = 0
        /\ RecordOf(c) = PassedRecord(c)

\* The errors of the collaborators: of the executor, the mapper and the
\* context lookup.
CollaboratorErrors == {ExecutorError, MapperError, ContextError}

\* C16: a call issues at most one exec or query, whatever fails.  An error
\* raised by a collaborator ends the call with that very error, and a call
\* ends with a collaborator's error only if that collaborator raised it;
\* a cursor the call had opened has then been closed, once, as the last
\* thing the call did.
C16_NoRetryNoSuppression ==
    \A c \in Callers :
        /\ N(c, "exec") + N(c, "query") <= 1
        /\ calls[c].raised # None
           => /\ Done(c) /\ calls[c].outcome = calls[c].raised[1]
              /\ calls[c].ret = None
              /\ HasCursor(c)
                 => /\ CursorOf(c).closed = 1 /\ N(c, "close") = 1
                    /\ calls[c].log[Len(calls[c].log)].ev = "close"
        /\ calls[c].outcome \in CollaboratorErrors
           => calls[c].raised = Some(calls[c].outcome)

\* C16 witness: a selectMany whose second advance of the cursor raised ended
\* with the executor's error, after one query, its cursor closed.
C16_Witness ==
    \E c \in Callers :
        /\ calls[c].op = "selectMany" /\ Done(c)
        /\ calls[c].raised = Some(ExecutorError) /\ calls[c].outcome = ExecutorError
        /\ N(c, "query") = 1 /\ N(c, "next") = 2 /\ N(c, "load") = 1
        /\ CursorOf(c).closed = 1

\* How many times the call had advanced its cursor before its i-th
\* collaborator call.
NextsBefore(log, i) == Cardinality({j \in 1..(i - 1) : log[j].ev = "next"})

\* The i-th collaborator call of c reads the row its cursor is on: the
\* cursor is not closed yet, and the row is the one the latest advance
\* moved onto (every advance before it answered with a row).
ReadsCurrentRow(c, i, row) ==
    LET log == calls[c].log
        n == NextsBefore(log, i)
    IN  /\ HasCursor(c)
        /\ \A j \in 1..(i - 1) : log[j].ev # "close"
        /\ n \in 1..Len(CursorOf(c).rows)
        /\ row = CursorOf(c).rows[n]
        /\ log[i - 1].ev \in {"next", "create"}

\* C17: a row is passed to load, or its first column to setKey, only while
\* the cursor is open and on that row.  In selectMany a record is yielded
\* with its create and load done, from a cursor that is open, one record
\* per row read; at the yield the last thing done is a load, and the cursor
\* stands on the row of the record just yielded.
C17_RowReadWhileCurrent ==
    \A c \in Callers :
        LET log == calls[c].log IN
        /\ \A i \in Entries(c, "load") : ReadsCurrentRow(c, i, log[i].arg.row)
        /\ \A i \in Entries(c, "setKey") :
             \E row \in {CursorOf(c).rows[j] : j \in 1..Len(CursorOf(c).rows)} :
                /\ ReadsCurrentRow(c, i, row)
                /\ log[i].arg.key = row[1]
        /\ Len(calls[c].yielded) <= N(c, "load")
        /\ calls[c].pc = "L215"
           => /\ CursorOf(c).closed = 0 /\ N(c, "close") = 0
              /\ log[Len(log)].ev = "load"
              /\ Len(calls[c].yielded) = N(c, "load")
              /\ N(c, "create") = N(c, "load")
              /\ CursorOf(c).pos = Len(calls[c].yielded)
              /\ N(c, "next") = CursorOf(c).pos

\* C17 witness: a selectMany suspended at its second yield, two rows read
\* and loaded, the cursor open and on the second row.
C17_Witness ==
    \E c \in Callers :
        /\ calls[c].pc = "L215" /\ Len(calls[c].yielded) = 2
        /\ CursorOf(c).pos = 2 /\ CursorOf(c).closed = 0
        /\ calls[c].log[Len(calls[c].log)] =
             Ev("load", [row |-> CursorOf(c).rows[2], rec |-> calls[c].yielded[2].id])

\* The callers whose call holds cursor k.
Owners(k) == {c \in Callers : calls[c].rows = k}

\* Every cursor belongs to one call, and all that was done to it was done by
\* that call: the call's advances and closes are on its own cursor, and the
\* cursor was advanced and closed as often as its call did so (closed once
\* when the call has completed, not before).
C18_OwnCursorOnly ==
    /\ \A k \in 1..Len(cursors) : Cardinality(Owners(k)) = 1
    /\ \A c \in Callers :
         /\ \A i \in Entries(c, "next") \cup Entries(c, "close") :
              calls[c].log[i].arg = calls[c].rows /\ HasCursor(c)
         /\ HasCursor(c)
            => /\ CursorOf(c).nexts = N(c, "next")
               /\ CursorOf(c).closed = N(c, "close")
               /\ CursorOf(c).closed = (IF Done(c) THEN 1 ELSE 0)
               /\ CursorOf(c).pos <= CursorOf(c).nexts

\* The result of the call of c is what its own input and its own cursor
\* give: the records yielded are the rows of its cursor in order, the key
\* set or the row loaded is the first row of its cursor, the record
\* returned by selectOne is built from that row, the error raised is the
\* one its own collaborator call raised.
C18_ResultAsAlone ==
    \A c \in Callers :
        LET ok == Done(c) /\ calls[c].outcome = "ok" IN
        /\ \A i \in 1..Len(calls[c].yielded) :
             calls[c].yielded[i] = load(CursorOf(c).rows[i], create(c, i))
        /\ ok /\ N(c, "setKey") = 1
           => RecordOf(c) = setKey(PassedRecord(c), FirstColumn(CursorOf(c).rows[1]))
        /\ ok /\ calls[c].op \in {"insert", "update"} /\ N(c, "load") = 1
           => RecordOf(c) = load(CursorOf(c).rows[1], PassedRecord(c))
        /\ ok /\ calls[c].op = "selectOne" /\ calls[c].ret # None
           => calls[c].ret = Some(load(CursorOf(c).rows[1], create(c, 1)))
        /\ Done(c) /\ calls[c].outcome \in CollaboratorErrors
           => calls[c].raised = Some(calls[c].outcome)

\* A step is a step of one call: it leaves the call of every other caller,
\* and the cursor of that call, as they are.
C18_NoInterference ==
    \A c, d \in Callers :
        c # d /\ calls'[c] # calls[c]
        => /\ calls'[d] = calls[d]
           /\ HasCursor(d) => cursors'[calls[d].rows] = cursors[calls[d].rows]

\* C18: with the calls of two callers interleaved at their suspension
\* points, each cursor is advanced, read and closed only by the call that
\* opened it and closed once; no step of one call changes another call or
\* its cursor; and each call's result is the one its own input and cursor
\* give, as when it runs alone.
C18_CallsIndependent ==
    [](C18_OwnCursorOnly /\ C18_ResultAsAlone) /\ [][C18_NoInterference]_vars

\* C18 witness: while a selectMany is suspended at its yield after one of two
\* rows, its cursor open, an insert of the other caller opened a later
\* cursor, loaded its row, closed it and completed.
C18_Witness ==
    \E c, d \in Callers :
        /\ c # d
        /\ calls[c].op = "selectMany" /\ calls[c].pc = "L215"
        /\ Len(calls[c].yielded) = 1 /\ Len(CursorOf(c).rows) = 2
        /\ CursorOf(c).closed = 0
        /\ calls[d].op = "insert" /\ Done(d) /\ calls[d].outcome = "ok"
        /\ N(d, "load") = 1 /\ calls[d].rows > calls[c].rows
        /\ CursorOf(d).closed = 1

\* The query of c's call was rejected: the call issued it and ended with the
\* executor's error having been given no cursor.
QueryRejected(c) ==
    /\ N(c, "query") = 1 /\ ~HasCursor(c)
    /\ Done(c) /\ calls[c].outcome = ExecutorError

\* C19: a call whose query was rejected calls close zero times, never
\* advances a cursor and calls none of create, load and setKey; the query
\* is the last collaborator call it made.  In every call, close is called
\* only on the cursor a query of that same call answered with.
C19_QueryFailureTouchesNoCursor ==
    \A c \in Callers :
        /\ QueryRejected(c)
           => /\ N(c, "close") = 0 /\ N(c, "next") = 0
              /\ N(c, "create") = 0 /\ N(c, "load") = 0 /\ N(c, "setKey") = 0
              /\ calls[c].log[Len(calls[c].log)].ev = "query"
              /\ calls[c].record # None => RecordOf(c) = PassedRecord(c)
        /\ \A i \in Entries(c, "close") :
              /\ HasCursor(c) /\ calls[c].log[i].arg = calls[c].rows
              /\ calls[c].rows \in 1..Len(cursors)
              /\ \E j \in Entries(c, "query") : j < i

\* C19 witness: a selectMany whose query was rejected ended with the
\* executor's error, with no cursor and nothing done after the query.
C19_Witness ==
    \E c \in Callers :
        /\ calls[c].op = "selectMany" /\ QueryRejected(c)
        /\ N(c, "close") = 0 /\ N(c, "next") = 0

====
